---- MODULE Spec2Model ----
(***************************************************************************)
(* Model of the verification engine of reactive-system-modeler:            *)
(* backend/engine/src/Verifier.cpp, called through backend/native/addon.cc.*)
(*                                                                         *)
(* A std::string is a sequence of one-character strings, so that the       *)
(* substring search and the whitespace tokenizer of evaluateExpression and *)
(* the ordering of std::set<std::string> are computed, not assumed.        *)
(***************************************************************************)
EXTENDS Integers, Sequences, FiniteSets, TLC

(***************************************************************************)
(* Bounds of the model and the input alphabets.                            *)
(***************************************************************************)
MaxStates == 2

MaxTransitions == 2

\* The empty string is an identifier the boundary layer accepts like any other.
Ids == {<<>>, <<"a">>, <<"b">>}

Names == {<<"Z">>, <<"Y">>}

\* "x != Z", "x == Z", "x < Z", "x !=Z", "x !== Z",
\* "y !== Z", "x== != Z", "x == Z!=", "x !=="
Expressions ==
  { <<"x", " ", "!", "=", " ", "Z">>,
    <<"x", " ", "=", "=", " ", "Z">>,
    <<"x", " ", "<", " ", "Z">>,
    <<"x", " ", "!", "=", "Z">>,
    <<"x", " ", "!", "=", "=", " ", "Z">>,
    <<"y", " ", "!", "=", "=", " ", "Z">>,
    <<"x", "=", "=", " ", "!", "=", " ", "Z">>,
    <<"x", " ", "=", "=", " ", "Z", "!", "=">>,
    <<"x", " ", "!", "=", "=">> }

\* The expressions that contain both "!=" and "==".
MixedExpressions ==
  { <<"x", " ", "!", "=", "=", " ", "Z">>,
    <<"y", " ", "!", "=", "=", " ", "Z">>,
    <<"x", "=", "=", " ", "!", "=", " ", "Z">>,
    <<"x", " ", "=", "=", " ", "Z", "!", "=">>,
    <<"x", " ", "!", "=", "=">> }

SeqsUpTo(S, n) == UNION {[1..k -> S] : k \in 0..n}

(***************************************************************************)
(* std::string: ordering (operator<), used by std::set<std::string>.       *)
(***************************************************************************)
CharCode(c) ==
  CASE c = " " -> 32
    [] c = "!" -> 33
    [] c = "<" -> 60
    [] c = "=" -> 61
    [] c = "Y" -> 89
    [] c = "Z" -> 90
    [] c = "a" -> 97
    [] c = "b" -> 98
    [] c = "x" -> 120
    [] c = "y" -> 121
    [] OTHER   -> 0

RECURSIVE StrLess(_, _)
StrLess(s, t) ==
  IF t = <<>> THEN FALSE
  ELSE IF s = <<>> THEN TRUE
  ELSE IF CharCode(Head(s)) # CharCode(Head(t))
       THEN CharCode(Head(s)) < CharCode(Head(t))
       ELSE StrLess(Tail(s), Tail(t))

\* Iteration order of a std::set<std::string>: ascending.
RECURSIVE SetToVector(_)
SetToVector(S) ==
  IF S = {} THEN <<>>
  ELSE LET least == CHOOSE x \in S : \A y \in S \ {x} : StrLess(x, y)
       IN  <<least>> \o SetToVector(S \ {least})

(***************************************************************************)
(* The machine snapshot built by convertJSStateMachine.  The fields the    *)
(* engine never reads (machine id, name, type; transition id, input,       *)
(* output) are left out.                                                   *)
(***************************************************************************)
State == [id : Ids, name : Names, isInitial : BOOLEAN, isFinal : BOOLEAN]

Transition == [from : Ids, to : Ids]

\* The values of the State fields an operation does not read.
AnyName == <<"Y">>

StateMachine ==
  [states : SeqsUpTo(State, MaxStates),
   transitions : SeqsUpTo(Transition, MaxTransitions)]

\* The snapshots that differ in what reachableStatesBFS reads of a state: its
\* id and its isInitial flag.
TraversalMachine ==
  [states : SeqsUpTo([id : Ids, name : {AnyName}, isInitial : BOOLEAN,
                      isFinal : {FALSE}], MaxStates),
   transitions : SeqsUpTo(Transition, MaxTransitions)]

\* The snapshots that differ in what findDeadlocks reads of a state (its id and
\* its isFinal flag) and in what is reachable.
StructuralMachine ==
  [states : SeqsUpTo([id : Ids, name : {AnyName}, isInitial : BOOLEAN,
                      isFinal : BOOLEAN], MaxStates),
   transitions : SeqsUpTo(Transition, MaxTransitions)]

\* The snapshots that differ in what isDeadlock and isLivelock read: the
\* transitions; the states only settle which identifiers name a state.
LivelockMachine ==
  [states : SeqsUpTo([id : Ids, name : {AnyName}, isInitial : {FALSE},
                      isFinal : {FALSE}], MaxStates),
   transitions : SeqsUpTo(Transition, MaxTransitions)]

\* The snapshots that differ in what canReachFinalState reads of a state: its
\* id, both flags, and a display name that tells the states of different id
\* apart in the message.
DisplayName(id) == AnyName \o id

FinalMachine ==
  [states : SeqsUpTo({[id |-> i, name |-> DisplayName(i), isInitial |-> a,
                       isFinal |-> f] : i \in Ids, a \in BOOLEAN, f \in BOOLEAN},
                     MaxStates),
   transitions : SeqsUpTo(Transition, MaxTransitions)]

\* The snapshots that differ in what evaluateExpression reads of a state: its
\* id and its name.  Every state is flagged isInitial, so the first one seeds
\* the traversal and the transitions settle what else is reachable.
InvariantMachine ==
  [states : SeqsUpTo([id : Ids, name : Names, isInitial : {TRUE},
                      isFinal : {FALSE}], MaxStates),
   transitions : SeqsUpTo(Transition, MaxTransitions)]

VARIABLES machine, pc, reachable, queue, pushed, popped, result

vars == <<machine, pc, reachable, queue, pushed, popped, result>>

(***************************************************************************)
(* reachableStatesBFS                                                      *)
(***************************************************************************)
\* Lines 18-27: the id of the first state flagged isInitial, or the
\* default-constructed (empty) string.
RECURSIVE findInitialStateId(_, _)
findInitialStateId(states, i) ==
  IF i > Len(states) THEN <<>>
  ELSE IF states[i].isInitial THEN states[i].id
  ELSE findInitialStateId(states, i + 1)

\* scanTransitions with a break after the first transition followed.
RECURSIVE scanTransitions_FirstOnly(_, _, _, _)
scanTransitions_FirstOnly(transitions, currentStateId, i, b) ==
  IF i > Len(transitions) THEN b
  ELSE LET t == transitions[i]
       IN  IF t.from = currentStateId /\ t.to \notin b.reachable
           THEN [reachable |-> b.reachable \cup {t.to},
                 queue     |-> Append(b.queue, t.to),
                 pushed    |-> Append(b.pushed, t.to)]
           ELSE scanTransitions_FirstOnly(transitions, currentStateId, i + 1, b)

\* scanTransitions marking the dequeued id, not the enqueued one, as visited.
RECURSIVE scanTransitions_MarkDequeued(_, _, _, _)
scanTransitions_MarkDequeued(transitions, currentStateId, i, b) ==
  IF i > Len(transitions) THEN b
  ELSE LET t == transitions[i]
       IN  IF t.from = currentStateId /\ t.to \notin b.reachable
           THEN scanTransitions_MarkDequeued(transitions, currentStateId, i + 1,
                  [reachable |-> b.reachable \cup {currentStateId},
                   queue     |-> Append(b.queue, t.to),
                   pushed    |-> Append(b.pushed, t.to)])
           ELSE scanTransitions_MarkDequeued(transitions, currentStateId, i + 1, b)

\* Lines 43-53: the for loop over machine.transitions for one dequeued id.
\* b = [reachable, queue, pushed].
RECURSIVE scanTransitions(_, _, _, _)
scanTransitions(transitions, currentStateId, i, b) ==
  IF i > Len(transitions) THEN b
  ELSE LET t == transitions[i]
       IN  IF t.from = currentStateId /\ t.to \notin b.reachable
           THEN scanTransitions(transitions, currentStateId, i + 1,
                  [reachable |-> b.reachable \cup {t.to},
                   queue     |-> Append(b.queue, t.to),
                   pushed    |-> Append(b.pushed, t.to)])
           ELSE scanTransitions(transitions, currentStateId, i + 1, b)

\* Lines 39-53: one iteration of the while loop.
whileBody(m, b) ==
  scanTransitions(m.transitions, Head(b.queue), 1,
                  [b EXCEPT !.queue = Tail(b.queue)])

\* Lines 37-56: the while loop, run to its end.
RECURSIVE whileLoop(_, _)
whileLoop(m, b) ==
  IF b.queue = <<>> THEN b.reachable ELSE whileLoop(m, whileBody(m, b))

\* Lines 13-57.
reachableStatesBFS(m) ==
  LET initialStateId == findInitialStateId(m.states, 1)
  IN  IF initialStateId = <<>> THEN {}
      ELSE whileLoop(m, [reachable |-> {initialStateId},
                         queue     |-> <<initialStateId>>,
                         pushed    |-> <<initialStateId>>])

\* Lines 88-92.
getReachableStates(m) == SetToVector(reachableStatesBFS(m))

\* Lines 62-83.  The path field is never filled.
isStateReachable(m, targetStateId) ==
  IF targetStateId \in reachableStatesBFS(m)
  THEN [isReachable |-> TRUE, path |-> <<>>, message |-> <<"State is reachable">>]
  ELSE [isReachable |-> FALSE, path |-> <<>>,
        message |-> <<"State is not reachable from initial state">>]

(***************************************************************************)
(* Structural analysis: isDeadlock, findDeadlocks, isLivelock              *)
(***************************************************************************)
\* Lines 97-107: the loop returns false at the first transition leaving stateId.
RECURSIVE isDeadlockFrom(_, _, _)
isDeadlockFrom(transitions, stateId, i) ==
  IF i > Len(transitions) THEN TRUE
  ELSE IF transitions[i].from = stateId THEN FALSE
  ELSE isDeadlockFrom(transitions, stateId, i + 1)

isDeadlock(m, stateId) == isDeadlockFrom(m.transitions, stateId, 1)

\* findDeadlocksFrom without the isFinal test.
RECURSIVE findDeadlocksFrom_FinalToo(_, _)
findDeadlocksFrom_FinalToo(m, i) ==
  IF i > Len(m.states) THEN <<>>
  ELSE IF isDeadlock(m, m.states[i].id)
       THEN <<m.states[i].id>> \o findDeadlocksFrom_FinalToo(m, i + 1)
       ELSE findDeadlocksFrom_FinalToo(m, i + 1)

\* Lines 116-122: the loop over machine.states, from state i on.
RECURSIVE findDeadlocksFrom(_, _)
findDeadlocksFrom(m, i) ==
  IF i > Len(m.states) THEN <<>>
  ELSE IF isDeadlock(m, m.states[i].id) /\ ~m.states[i].isFinal
       THEN <<m.states[i].id>> \o findDeadlocksFrom(m, i + 1)
       ELSE findDeadlocksFrom(m, i + 1)

\* Lines 112-125.
findDeadlocks(m) == findDeadlocksFrom(m, 1)

\* isLivelockFrom without the test of the transition's source.
RECURSIVE isLivelockFrom_AnySource(_, _, _)
isLivelockFrom_AnySource(transitions, stateId, i) ==
  IF i > Len(transitions) THEN TRUE
  ELSE IF transitions[i].to # stateId THEN FALSE
  ELSE isLivelockFrom_AnySource(transitions, stateId, i + 1)

\* Lines 130-140: the loop returns false at the first transition that leaves
\* stateId for another state.
RECURSIVE isLivelockFrom(_, _, _)
isLivelockFrom(transitions, stateId, i) ==
  IF i > Len(transitions) THEN TRUE
  ELSE IF transitions[i].from = stateId /\ transitions[i].to # stateId THEN FALSE
  ELSE isLivelockFrom(transitions, stateId, i + 1)

isLivelock(m, stateId) == isLivelockFrom(m.transitions, stateId, 1)

(***************************************************************************)
(* evaluateExpression and checkInvariant                                   *)
(***************************************************************************)
\* std::string::find(pat) != npos
RECURSIVE IsPrefix(_, _)
IsPrefix(pat, s) ==
  IF pat = <<>> THEN TRUE
  ELSE IF s = <<>> THEN FALSE
  ELSE Head(pat) = Head(s) /\ IsPrefix(Tail(pat), Tail(s))

RECURSIVE StrFind(_, _)
StrFind(s, pat) ==
  IF IsPrefix(pat, s) THEN TRUE
  ELSE IF s = <<>> THEN FALSE
  ELSE StrFind(Tail(s), pat)

\* operator>>(istream&, string&): skip leading whitespace, then read up to the
\* next whitespace or the end; a failed extraction leaves the string empty.
IsSpace(c) == c = " "

RECURSIVE SkipSpace(_)
SkipSpace(s) ==
  IF s # <<>> /\ IsSpace(Head(s)) THEN SkipSpace(Tail(s)) ELSE s

RECURSIVE ReadWord(_, _)
ReadWord(s, acc) ==
  IF s = <<>> \/ IsSpace(Head(s)) THEN [word |-> acc, rest |-> s]
  ELSE ReadWord(Tail(s), Append(acc, Head(s)))

Extract(s) == ReadWord(SkipSpace(s), <<>>)

\* Lines 172-174 and 182-184: iss >> state >> op >> value.
parseExpression(expression) ==
  LET r1 == Extract(expression)
      r2 == Extract(r1.rest)
      r3 == Extract(r2.rest)
  IN  [state |-> r1.word, op |-> r2.word, value |-> r3.word]

\* Lines 151-159: index of the first state with the id, 0 for the null pointer.
RECURSIVE findState(_, _, _)
findState(states, stateId, i) ==
  IF i > Len(states) THEN 0
  ELSE IF states[i].id = stateId THEN i
  ELSE findState(states, stateId, i + 1)

\* evaluateExpression with the test for "==" before the test for "!=".
evaluateExpression_EqualFirst(expression, m, currentStateId) ==
  LET currentState == findState(m.states, currentStateId, 1)
  IN  IF currentState = 0 THEN FALSE
      ELSE IF StrFind(expression, <<"=", "=">>)
           THEN m.states[currentState].name = parseExpression(expression).value
      ELSE IF StrFind(expression, <<"!", "=">>)
           THEN m.states[currentState].name # parseExpression(expression).value
      ELSE TRUE

\* Lines 145-191.
evaluateExpression(expression, m, currentStateId) ==
  LET currentState == findState(m.states, currentStateId, 1)
  IN  IF currentState = 0 THEN FALSE
      ELSE IF StrFind(expression, <<"!", "=">>)
           THEN m.states[currentState].name # parseExpression(expression).value
      ELSE IF StrFind(expression, <<"=", "=">>)
           THEN m.states[currentState].name = parseExpression(expression).value
      ELSE TRUE

\* Lines 206-216: the loop over the reachable ids, from position i on.
RECURSIVE checkInvariantFrom(_, _, _, _)
checkInvariantFrom(m, invariantExpression, reachableStates, i) ==
  IF i > Len(reachableStates)
  THEN [holds |-> TRUE, failingState |-> <<>>, failingPath |-> <<>>,
        message |-> <<"Invariant holds on all reachable states">>]
  ELSE IF ~evaluateExpression(invariantExpression, m, reachableStates[i])
       THEN [holds |-> FALSE, failingState |-> reachableStates[i],
             failingPath |-> <<reachableStates[i]>>,
             message |-> <<"Invariant violated at state: ", reachableStates[i]>>]
       ELSE checkInvariantFrom(m, invariantExpression, reachableStates, i + 1)

\* Lines 196-219.
checkInvariant(m, invariantExpression) ==
  checkInvariantFrom(m, invariantExpression, getReachableStates(m), 1)

(***************************************************************************)
(* canReachFinalState                                                      *)
(***************************************************************************)
\* canReachFinalStateFrom without the membership test.
RECURSIVE canReachFinalStateFrom_AnyFinal(_, _, _)
canReachFinalStateFrom_AnyFinal(m, reach, i) ==
  IF i > Len(m.states)
  THEN [isReachable |-> FALSE, path |-> <<>>,
        message |-> <<"No final state reachable">>]
  ELSE IF m.states[i].isFinal
       THEN [isReachable |-> TRUE, path |-> <<>>,
             message |-> <<"Final state '", m.states[i].name, "' is reachable">>]
       ELSE canReachFinalStateFrom_AnyFinal(m, reach, i + 1)

\* Lines 232-240: the loop over machine.states, from state i on.
RECURSIVE canReachFinalStateFrom(_, _, _)
canReachFinalStateFrom(m, reach, i) ==
  IF i > Len(m.states)
  THEN [isReachable |-> FALSE, path |-> <<>>,
        message |-> <<"No final state reachable">>]
  ELSE IF m.states[i].isFinal /\ m.states[i].id \in reach
       THEN [isReachable |-> TRUE, path |-> <<>>,
             message |-> <<"Final state '", m.states[i].name, "' is reachable">>]
       ELSE canReachFinalStateFrom(m, reach, i + 1)

\* Lines 224-243.
canReachFinalState(m) == canReachFinalStateFrom(m, reachableStatesBFS(m), 1)

(***************************************************************************)
(* generateReport                                                          *)
(***************************************************************************)
\* Lines 254-261.
RECURSIVE countInitial(_, _)
countInitial(states, i) ==
  IF i > Len(states) THEN 0
  ELSE (IF states[i].isInitial THEN 1 ELSE 0) + countInitial(states, i + 1)

\* initialErrors without the branch for more than one initial state.
initialErrors_ZeroOnly(m) ==
  IF countInitial(m.states, 1) = 0 THEN << <<"ERROR: No initial state defined">> >>
  ELSE <<>>

\* Lines 263-272: the errors of the initial-state check.
initialErrors(m) ==
  LET initialCount == countInitial(m.states, 1)
  IN  IF initialCount = 0 THEN << <<"ERROR: No initial state defined">> >>
      ELSE IF initialCount > 1 THEN << <<"ERROR: Multiple initial states defined">> >>
      ELSE <<>>

\* Lines 279-285: whether some state has the id.
RECURSIVE stateExists(_, _, _)
stateExists(states, id, i) ==
  IF i > Len(states) THEN FALSE
  ELSE states[i].id = id \/ stateExists(states, id, i + 1)

\* Lines 275-297: the errors of the transition check, from transition i on.
RECURSIVE transitionErrors(_, _)
transitionErrors(m, i) ==
  IF i > Len(m.transitions) THEN <<>>
  ELSE LET t == m.transitions[i]
           fromExists == stateExists(m.states, t.from, 1)
           toExists == stateExists(m.states, t.to, 1)
       IN  (IF ~fromExists
            THEN << <<"ERROR: Transition from non-existent state: ", t.from>> >>
            ELSE <<>>)
           \o (IF ~toExists
               THEN << <<"ERROR: Transition to non-existent state: ", t.to>> >>
               ELSE <<>>)
           \o transitionErrors(m, i + 1)

\* std::find(reachable.begin(), reachable.end(), id) != reachable.end()
InVector(v, x) == \E k \in 1..Len(v) : v[k] = x

\* Lines 306-312: the warnings of the loop over machine.states, from state i on.
RECURSIVE unreachableWarningsFrom(_, _, _)
unreachableWarningsFrom(m, reach, i) ==
  IF i > Len(m.states) THEN <<>>
  ELSE (IF ~InVector(reach, m.states[i].id)
        THEN << <<"WARNING: Unreachable state: ", m.states[i].name>> >>
        ELSE <<>>)
       \o unreachableWarningsFrom(m, reach, i + 1)

\* Lines 304-313.
unreachableWarnings(m, reach) ==
  IF Len(reach) < Len(m.states) THEN unreachableWarningsFrom(m, reach, 1)
  ELSE <<>>

\* Lines 316-323.
deadlockWarnings(deadlocks) ==
  [k \in 1..Len(deadlocks) |-> <<"WARNING: Potential deadlock state: ", deadlocks[k]>>]

\* Lines 326-330.
finalWarnings(m) ==
  IF ~canReachFinalState(m).isReachable
  THEN << <<"WARNING: No final state is reachable">> >>
  ELSE <<>>

\* Lines 248-342.  isValid starts true and is cleared wherever an error is pushed.
generateReport(m) ==
  LET errors == initialErrors(m) \o transitionErrors(m, 1)
      reach == getReachableStates(m)
      deadlocks == findDeadlocks(m)
      isValid == (errors = <<>>)
  IN  [isValid |-> isValid,
       errors |-> errors,
       warnings |-> unreachableWarnings(m, reach) \o deadlockWarnings(deadlocks)
                      \o finalWarnings(m),
       reachableStates |-> Len(reach),
       totalStates |-> Len(m.states),
       deadlocks |-> deadlocks,
       summary |-> [states |-> Len(m.states), reachable |-> Len(reach),
                    transitions |-> Len(m.transitions),
                    status |-> IF isValid THEN "VALID" ELSE "INVALID"]]

NoResult == [op |-> "none"]

InitWith(machines) ==
  /\ machine \in machines
  /\ pc = "idle"
  /\ reachable = {}
  /\ queue = <<>>
  /\ pushed = <<>>
  /\ popped = <<>>
  /\ result = NoResult

Init == InitWith(StateMachine)

InitTraversal == InitWith(TraversalMachine)

InitStructural == InitWith(StructuralMachine)

InitLivelock == InitWith(LivelockMachine)

InitFinal == InitWith(FinalMachine)

InitInvariant == InitWith(InvariantMachine)

(***************************************************************************)
(* The traversal of reachableStatesBFS, one loop iteration per step.       *)
(***************************************************************************)
BFSBegin ==
  /\ pc = "idle"
  /\ LET initialStateId == findInitialStateId(machine.states, 1)
     IN  IF initialStateId = <<>>
         THEN /\ pc' = "bfsReturned"
              /\ UNCHANGED <<reachable, queue, pushed>>
         ELSE /\ pc' = "bfs"
              /\ queue' = <<initialStateId>>
              /\ reachable' = {initialStateId}
              /\ pushed' = <<initialStateId>>
  /\ UNCHANGED <<machine, popped, result>>

BFSIterate ==
  /\ pc = "bfs"
  /\ queue # <<>>
  /\ LET b == whileBody(machine, [reachable |-> reachable, queue |-> queue,
                                  pushed |-> pushed])
     IN  /\ reachable' = b.reachable
         /\ queue' = b.queue
         /\ pushed' = b.pushed
  /\ popped' = Append(popped, Head(queue))
  /\ UNCHANGED <<machine, pc, result>>

BFSReturn ==
  /\ pc = "bfs"
  /\ queue = <<>>
  /\ pc' = "bfsReturned"
  /\ UNCHANGED <<machine, reachable, queue, pushed, popped, result>>

(***************************************************************************)
(* The operations of the engine, each applied to the snapshot.             *)
(***************************************************************************)
Return(r) ==
  /\ pc = "idle"
  /\ result' = r
  /\ pc' = "returned"
  /\ UNCHANGED <<machine, reachable, queue, pushed, popped>>

\* addon.cc VerifyStateMachine
VerifyStateMachine ==
  Return([op |-> "generateReport", report |-> generateReport(machine)])

\* addon.cc CheckReachability
CheckReachability ==
  \E targetStateId \in Ids :
    Return([op |-> "isStateReachable", arg |-> targetStateId,
            value |-> isStateReachable(machine, targetStateId)])

\* addon.cc FindDeadlocks
FindDeadlocks ==
  Return([op |-> "findDeadlocks", value |-> findDeadlocks(machine)])

IsDeadlock ==
  \E stateId \in Ids :
    Return([op |-> "isDeadlock", arg |-> stateId,
            value |-> isDeadlock(machine, stateId)])

IsLivelock ==
  \E stateId \in Ids :
    Return([op |-> "isLivelock", arg |-> stateId,
            value |-> isLivelock(machine, stateId)])

CheckInvariant ==
  \E invariantExpression \in Expressions :
    Return([op |-> "checkInvariant", arg |-> invariantExpression,
            value |-> checkInvariant(machine, invariantExpression)])

\* Verifier.cpp line 208: the call of evaluateExpression that the loop of
\* checkInvariant makes for the i-th reachable id, which it reaches when the
\* expression held for the ids before it.
EvaluateExpressionOf(expressions) ==
  \E reachableStates \in {getReachableStates(machine)} :
      \E i \in 1..Len(reachableStates) :
        \E invariantExpression \in expressions :
          /\ \A j \in 1..(i - 1) :
               evaluateExpression(invariantExpression, machine, reachableStates[j])
          /\ Return([op |-> "evaluateExpression", arg |-> invariantExpression,
                     id |-> reachableStates[i],
                     value |-> evaluateExpression(invariantExpression, machine,
                                                  reachableStates[i])])

EvaluateExpression == EvaluateExpressionOf(Expressions)

EvaluateMixedExpression == EvaluateExpressionOf(MixedExpressions)

GetReachableStates ==
  Return([op |-> "getReachableStates", value |-> getReachableStates(machine)])

CanReachFinalState ==
  Return([op |-> "canReachFinalState", value |-> canReachFinalState(machine)])

Next ==
  \/ BFSBegin
  \/ BFSIterate
  \/ BFSReturn
  \/ VerifyStateMachine
  \/ CheckReachability
  \/ FindDeadlocks
  \/ IsDeadlock
  \/ IsLivelock
  \/ CheckInvariant
  \/ EvaluateExpression
  \/ GetReachableStates
  \/ CanReachFinalState

Spec == Init /\ [][Next]_vars

(***************************************************************************)
(* The traversal and its result alone, with the fairness of a sequential   *)
(* program: a loop iteration that can run does run.                        *)
(***************************************************************************)
NextTraversal == BFSBegin \/ BFSIterate \/ BFSReturn \/ GetReachableStates

LiveSpec ==
  /\ InitTraversal
  /\ [][NextTraversal]_vars
  /\ WF_vars(BFSIterate)
  /\ WF_vars(BFSReturn)

(***************************************************************************)
(* findDeadlocks alone.                                                    *)
(***************************************************************************)
DeadlockSpec == InitStructural /\ [][FindDeadlocks]_vars

(***************************************************************************)
(* isDeadlock and isLivelock alone.                                        *)
(***************************************************************************)
NextLivelock == IsDeadlock \/ IsLivelock

LivelockSpec == InitLivelock /\ [][NextLivelock]_vars

(***************************************************************************)
(* canReachFinalState alone.                                               *)
(***************************************************************************)
FinalSpec == InitFinal /\ [][CanReachFinalState]_vars

(***************************************************************************)
(* The calls of evaluateExpression with an expression that contains both   *)
(* operators, alone.                                                       *)
(***************************************************************************)
InvariantSpec == InitInvariant /\ [][EvaluateMixedExpression]_vars

(***************************************************************************)
(* generateReport alone, over the snapshots that differ in what decides    *)
(* the report's errors, counts and kinds of warning (a display name is     *)
(* only copied into a warning's text).                                     *)
(***************************************************************************)
ReportSpec == InitStructural /\ [][VerifyStateMachine]_vars

(***************************************************************************)
(* Vocabulary of the properties, stated over the machine, not over the     *)
(* engine's loops.                                                         *)
(***************************************************************************)
Range(v) == {v[k] : k \in 1..Len(v)}

NoDuplicates(v) == \A j, k \in 1..Len(v) : j # k => v[j] # v[k]

StateIds(m) == {m.states[i].id : i \in 1..Len(m.states)}

InitialIndexes(m) == {i \in 1..Len(m.states) : m.states[i].isInitial}

FirstIndex(I) == CHOOSE i \in I : \A j \in I : i <= j

HasOutgoing(m, id) == \E k \in 1..Len(m.transitions) : m.transitions[k].from = id

Successors(m, R) ==
  {m.transitions[k].to : k \in {j \in 1..Len(m.transitions) : m.transitions[j].from \in R}}

\* The identifiers at the end of a chain of zero or more transitions from R.
RECURSIVE ChainEnds(_, _)
ChainEnds(m, R) ==
  IF Successors(m, R) \subseteq R THEN R ELSE ChainEnds(m, R \cup Successors(m, R))

Closed(m, R) == Successors(m, R) \subseteq R

LeastId(S) == CHOOSE x \in S : \A y \in S \ {x} : StrLess(x, y)

NotEqualZ == <<"x", " ", "!", "=", " ", "Z">>

(***************************************************************************)
(* C1: generateReport returns isValid = true if and only if exactly one    *)
(* state is flagged isInitial and both endpoints of every transition are   *)
(* identifiers of states of the machine; warnings (unreachable states,     *)
(* deadlocks, no reachable final state) never change isValid.              *)
(***************************************************************************)
C1_ValidIffStructure ==
  result.op = "generateReport" =>
    (result.report.isValid <=>
       /\ Cardinality(InitialIndexes(machine)) = 1
       /\ \A k \in 1..Len(machine.transitions) :
            /\ machine.transitions[k].from \in StateIds(machine)
            /\ machine.transitions[k].to \in StateIds(machine))

\* A valid report that carries an unreachable-state warning, a deadlock
\* warning and the no-final-state warning.
C1_Witness ==
  /\ result.op = "generateReport"
  /\ result.report.isValid
  /\ \E k \in 1..Len(result.report.warnings) :
       result.report.warnings[k][1] = "WARNING: Unreachable state: "
  /\ \E k \in 1..Len(result.report.warnings) :
       result.report.warnings[k][1] = "WARNING: Potential deadlock state: "
  /\ \E k \in 1..Len(result.report.warnings) :
       result.report.warnings[k][1] = "WARNING: No final state is reachable"
  /\ machine.transitions # <<>>

(***************************************************************************)
(* C2: for every state whose identifier is absent from the reachable set,  *)
(* the report of generateReport contains a warning naming that state       *)
(* unreachable, also with dangling transitions and duplicate identifiers.  *)
(***************************************************************************)
C2_UnreachableWarned ==
  result.op = "generateReport" =>
    \A i \in 1..Len(machine.states) :
      machine.states[i].id \notin reachableStatesBFS(machine) =>
        \E k \in 1..Len(result.report.warnings) :
          result.report.warnings[k] =
            <<"WARNING: Unreachable state: ", machine.states[i].name>>

(***************************************************************************)
(* C3: for an expression that contains neither "!=" nor "==",              *)
(* checkInvariant returns holds = true and no failing state, whatever the  *)
(* reachable set is.                                                       *)
(***************************************************************************)
C3_UnrecognizedHolds ==
  (/\ result.op = "checkInvariant"
   /\ ~StrFind(result.arg, <<"!", "=">>)
   /\ ~StrFind(result.arg, <<"=", "=">>))
  => /\ result.value.holds
     /\ result.value.failingState = <<>>
     /\ result.value.failingPath = <<>>

(***************************************************************************)
(* C4: the reachable set is closed under outgoing transitions and holds    *)
(* nothing but the ends of chains of zero or more transitions from the     *)
(* seed, the first state flagged isInitial.                                *)
(***************************************************************************)
ClosedAndChained(m, R) ==
  /\ Closed(m, R)
  /\ R # {} => /\ InitialIndexes(m) # {}
               /\ R \subseteq ChainEnds(m, {m.states[FirstIndex(InitialIndexes(m))].id})

C4_ClosedAndNothingElse ==
  /\ pc = "bfsReturned" => ClosedAndChained(machine, reachable)
  /\ result.op = "getReachableStates" =>
       ClosedAndChained(machine, Range(result.value))

\* A traversal that followed a chain of two transitions to three identifiers.
C4_Witness ==
  /\ pc = "bfsReturned"
  /\ Cardinality(reachable) = 3
  /\ Len(popped) = 3

(***************************************************************************)
(* C5: when some state is flagged isInitial, the reachable set contains    *)
(* the identifier of the first such state, and a later state flagged       *)
(* isInitial is in the set only if a chain from the first one reaches it;  *)
(* when none is flagged, the set is empty and generateReport records       *)
(* reachableStates = 0.                                                    *)
(***************************************************************************)
SeedSelection(m, R) ==
  IF InitialIndexes(m) = {} THEN R = {}
  ELSE LET seed == m.states[FirstIndex(InitialIndexes(m))].id
       IN  /\ seed \in R
           /\ \A i \in InitialIndexes(m) :
                m.states[i].id \in R => m.states[i].id \in ChainEnds(m, {seed})

C5_SeedSelection ==
  /\ pc = "bfsReturned" => SeedSelection(machine, reachable)
  /\ result.op = "getReachableStates" => SeedSelection(machine, Range(result.value))
  /\ (result.op = "generateReport" /\ InitialIndexes(machine) = {}) =>
       result.report.reachableStates = 0

(***************************************************************************)
(* C6: findDeadlocks returns, in machine state order, exactly the          *)
(* identifiers of the states with no outgoing transition that are not      *)
(* flagged isFinal, reachable or not.                                      *)
(***************************************************************************)
DeadlockedStates(m) ==
  SelectSeq(m.states, LAMBDA s : ~HasOutgoing(m, s.id) /\ ~s.isFinal)

C6_FindDeadlocks ==
  result.op = "findDeadlocks" =>
    /\ Len(result.value) = Len(DeadlockedStates(machine))
    /\ \A k \in 1..Len(result.value) :
         result.value[k] = DeadlockedStates(machine)[k].id

\* Two deadlocks reported in state order, the first of them unreachable, next
\* to nothing else; and a run where a final state without transitions is left out.
C6_Witness ==
  /\ result.op = "findDeadlocks"
  /\ Len(result.value) = 1
  /\ Len(machine.states) = 2
  /\ result.value[1] \notin reachableStatesBFS(machine)
  /\ reachableStatesBFS(machine) # {}
  /\ \E i \in 1..Len(machine.states) :
       machine.states[i].isFinal /\ ~HasOutgoing(machine, machine.states[i].id)

(***************************************************************************)
(* C7: for "x != Z", checkInvariant holds exactly when no state in the     *)
(* reachable set has display name "Z"; otherwise failingState is the least *)
(* identifier of a reachable state named "Z" and failingPath holds just    *)
(* that identifier.                                                        *)
(***************************************************************************)
ReachableNamedZ(m) ==
  {m.states[i].id : i \in {j \in 1..Len(m.states) :
      m.states[j].name = <<"Z">> /\ m.states[j].id \in reachableStatesBFS(m)}}

C7_NotEqualZ ==
  (result.op = "checkInvariant" /\ result.arg = NotEqualZ) =>
    /\ result.value.holds <=> ReachableNamedZ(machine) = {}
    /\ ~result.value.holds =>
         /\ ReachableNamedZ(machine) # {}
         /\ result.value.failingState = LeastId(ReachableNamedZ(machine))
         /\ result.value.failingPath = <<LeastId(ReachableNamedZ(machine))>>

(***************************************************************************)
(* C8: canReachFinalState returns isReachable = true if and only if some   *)
(* state flagged isFinal has its identifier in the reachable set; the      *)
(* message then names the first such state in machine state order, and is  *)
(* the generic message otherwise.                                          *)
(***************************************************************************)
ReachableFinals(m) ==
  {i \in 1..Len(m.states) :
     m.states[i].isFinal /\ m.states[i].id \in reachableStatesBFS(m)}

C8_CanReachFinalState ==
  result.op = "canReachFinalState" =>
    /\ result.value.isReachable <=> ReachableFinals(machine) # {}
    /\ result.value.isReachable =>
         result.value.message =
           <<"Final state '",
             machine.states[FirstIndex(ReachableFinals(machine))].name,
             "' is reachable">>
    /\ ~result.value.isReachable =>
         result.value.message = <<"No final state reachable">>

\* Two final states with different names are both reachable, and the message
\* names the first of them.
C8_Witness ==
  /\ result.op = "canReachFinalState"
  /\ result.value.isReachable
  /\ ReachableFinals(machine) = {1, 2}
  /\ machine.states[1].name # machine.states[2].name
  /\ result.value.message[2] = machine.states[1].name

(***************************************************************************)
(* C9: for every identifier s, naming a state or not, isDeadlock(s)        *)
(* implies isLivelock(s); isLivelock(s) is true exactly when every         *)
(* transition with from = s has to = s.                                    *)
(***************************************************************************)
OnlySelfLoops(m, s) ==
  \A k \in 1..Len(m.transitions) :
    m.transitions[k].from = s => m.transitions[k].to = s

C9_DeadlockImpliesLivelock ==
  /\ \A s \in Ids :
       /\ isDeadlock(machine, s) => isLivelock(machine, s)
       /\ isLivelock(machine, s) <=> OnlySelfLoops(machine, s)
  /\ result.op = "isLivelock" =>
       (result.value <=> OnlySelfLoops(machine, result.arg))
  /\ (result.op = "isDeadlock" /\ result.value) => isLivelock(machine, result.arg)

\* isDeadlock answered true for an identifier that names no state, in a
\* machine that has transitions between other identifiers.
C9_Witness ==
  /\ result.op = "isDeadlock"
  /\ result.value
  /\ result.arg \notin StateIds(machine)
  /\ \E k \in 1..Len(machine.transitions) :
       machine.transitions[k].to # machine.transitions[k].from

(***************************************************************************)
(* C10: the traversal terminates on every machine, enqueues and dequeues   *)
(* each identifier at most once, and at every step every identifier in     *)
(* the work queue is in the visited set.                                   *)
(***************************************************************************)
QueueDiscipline ==
  /\ NoDuplicates(pushed)
  /\ NoDuplicates(popped)
  /\ Range(queue) \subseteq reachable

C10_TraversalTerminates ==
  /\ []QueueDiscipline
  /\ (pc = "bfs") ~> (pc = "bfsReturned")

\* A traversal that returned after going round a cycle with a self-loop or a
\* multi-edge: two identifiers dequeued, each once.
C10_Witness ==
  /\ pc = "bfsReturned"
  /\ Len(popped) = 2
  /\ Len(machine.transitions) = 2
  /\ \A k \in 1..2 : machine.transitions[k].to \in Range(popped)
  /\ \A k \in 1..2 : machine.transitions[k].from \in Range(popped)

(***************************************************************************)
(* C11: an expression that contains both "!=" and "==" is evaluated as an  *)
(* inequality: for each reachable state the predicate holds if and only if *)
(* the state's display name differs from the third whitespace-separated    *)
(* token of the expression, and the first token is never consulted.        *)
(***************************************************************************)
\* The positions where a token starts, and the token that starts at p.
TokenStarts(e) ==
  {p \in 1..Len(e) : e[p] # " " /\ (p = 1 \/ e[p - 1] = " ")}

TokenAt(e, p) ==
  LET ends == {q \in p..Len(e) : \A k \in p..q : e[k] # " "}
  IN  SubSeq(e, p, CHOOSE q \in ends : \A r \in ends : r <= q)

\* The third token, or the empty string the extraction leaves when there is none.
ThirdToken(e) ==
  LET third == {p \in TokenStarts(e) :
                  Cardinality({q \in TokenStarts(e) : q < p}) = 2}
  IN  IF third = {} THEN <<>> ELSE TokenAt(e, CHOOSE p \in third : TRUE)

FirstToken(e) ==
  IF TokenStarts(e) = {} THEN <<>>
  ELSE TokenAt(e, FirstIndex(TokenStarts(e)))

IsMixed(e) == StrFind(e, <<"!", "=">>) /\ StrFind(e, <<"=", "=">>)

\* The tokens and the kind of every expression of the alphabet.
ThirdTokenOf == [e \in Expressions |-> ThirdToken(e)]

FirstTokenOf == [e \in Expressions |-> FirstToken(e)]

AllMixed == {e \in Expressions : IsMixed(e)}

\* The states of the machine that bear the identifier.
Bearers(m, id) == {i \in 1..Len(m.states) : m.states[i].id = id}

\* Whatever the first token is, the expressions with the same third token agree.
FirstTokenIgnored ==
  \A e \in AllMixed :
    (/\ ThirdTokenOf[e] = ThirdTokenOf[result.arg]
     /\ FirstTokenOf[e] # FirstTokenOf[result.arg])
      => evaluateExpression(e, machine, result.id) = result.value

====
